---- MODULE Spec2Model ----
(***************************************************************************)
(* Position state machine and execution reconciler of the AlgoTrading      *)
(* strategies: the two live polling loops (P2Amean_reversion_live_trading, *)
(* P2Btrend_follow_live_trading) and the four backtest strategies of       *)
(* P1EStrategies.                                                          *)
(*                                                                         *)
(* Prices are integers.  stop_loss and take_profit are kept in hundredths  *)
(* of a price unit (close * 95, close * 110), and a close is compared with *)
(* them as close * 100, so 0.95 and 1.10 are exact.                        *)
(***************************************************************************)
EXTENDS Integers, Sequences, FiniteSets, TLC

VARIABLES
    variant,    \* which program runs: one of Variants
    pc,         \* position of the run loop: "fetch", "evaluate", "crashed", "exited"
    data,       \* tail of self.data: <<row at iloc[-2], row at iloc[-1]>>
    self,       \* the app / strategy object's position attributes
    broker,     \* live: units the broker account really holds (api side)
    position,   \* backtest: the library's Position ("flat", "long", "short")
    orders,     \* backtest: orders placed in next(), filled at the next bar
    cycle,      \* what the last evaluation cycle did (history, read by the properties)
    entry_price,\* the close of the bar of the last OPEN_LONG decision (history)
    series,     \* the bars a run is fed from, its indicator columns, the bars consumed
    bar_buys    \* live: BUY orders submitted since the latest bar arrived (history)

vars == <<variant, pc, data, self, broker, position, orders, cycle, entry_price, series,
          bar_buys>>

(***************************************************************************)
(* Values                                                                  *)
(***************************************************************************)
\* Python None / an unset attribute / a float NaN: the empty tuple; a number v is <<v>>.
None == <<>>
Some(v) == <<v>>

LONG == "long"

Live == {"LiveA", "LiveB"}
Backtests == {"EmaRsi", "BbRsi", "MacdAdx", "EmaAdx"}
Variants == Live \cup Backtests

upper_rsi_band == 80
lower_rsi_band == 30
bb_upper_rsi_band == 70
adx_threshold == 25
adx_exit_threshold == 20

\* Bound of the broker-side holding (units bought and not sold).
MaxQty == 2

\* Comparisons of an indicator value that may be NaN with a number: a
\* comparison with NaN is False.
Lt(x, n) == x # None /\ x[1] < n
Gt(x, n) == x # None /\ x[1] > n

\* Closes: 0 is the invalid price; 20 enters with stop 19.00 and target 22.00.
Prices == {0, 19, 20, 22}
RsiVals == {None, Some(20), Some(80), Some(90)}
AdxVals == {None, Some(10), Some(20), Some(30)}
Equities == {1000, 2500}

\* Rows of self.data after calculate_indicators, per variant (the columns the
\* decision reads).
MeanRevRows == [Close : Prices, Ema : {20}, Rsi : RsiVals]
TrendRows == [Close : Prices, Macd : {0, 1, 2}, Macd_signal : {1},
              Plus_di : {1, 2}, Minus_di : {1}, Adx : AdxVals]

BbRows == [Close : Prices, Lower_bb : {20}, Rsi : RsiVals]
EmaAdxRows == [Close : Prices, Short_ema : {0, 1, 2}, Long_ema : {1},
               Plus_di : {1, 2}, Minus_di : {1}, Adx : AdxVals]

Rows(v) ==
    IF v \in {"LiveA", "EmaRsi"} THEN MeanRevRows
    ELSE IF v = "BbRsi" THEN BbRows
    ELSE IF v \in {"LiveB", "MacdAdx"} THEN TrendRows
    ELSE EmaAdxRows

\* Of the row at iloc[-2] only the columns of the crossing series are kept
\* (MacdAdxLiveTradingApp holds them in self.data without reading them).
PrevRow(v, row) ==
    IF v \in {"LiveA", "EmaRsi"} THEN [Close |-> row.Close, Ema |-> row.Ema]
    ELSE IF v = "BbRsi" THEN [Close |-> row.Close, Lower_bb |-> row.Lower_bb]
    ELSE IF v \in {"LiveB", "MacdAdx"}
         THEN [Macd |-> row.Macd, Macd_signal |-> row.Macd_signal]
    ELSE [Short_ema |-> row.Short_ema, Long_ema |-> row.Long_ema]

NewSelf == [position_open |-> "None", current_position |-> "None",
            stop_loss |-> None, take_profit |-> None]

(***************************************************************************)
(* Broker collaborator (live)                                              *)
(***************************************************************************)
\* api.get_all_positions(): the list is non-empty iff the account holds units.
Positions(qty) == IF qty > 0 THEN 1 ELSE 0

\* api.submit_order(order): whether the order fills is the broker's choice; a
\* SELL fills only against held units.
SubmitOrder(qty, side, filled) ==
    IF ~filled THEN qty
    ELSE IF side = "BUY" THEN (IF qty < MaxQty THEN qty + 1 ELSE qty)
    ELSE (IF qty > 0 THEN qty - 1 ELSE qty)

\* api.get_account(): raises, or answers with the account equity.
AccountOutcomes == {[raised |-> TRUE, equity |-> 0]}
                       \cup {[raised |-> FALSE, equity |-> e] : e \in Equities}

(***************************************************************************)
(* calculate_position_size, execute_trade, manage_position, close_position *)
(***************************************************************************)
\* calculate_position_size with the price check written `< 0` (a zero price passes).
CalculatePositionSizePositiveOnly(acct, current_price) ==
    IF acct.raised THEN [err |-> "AccountError", num |-> 0, den |-> 0]
    ELSE IF current_price < 0 THEN [err |-> "InvalidPrice", num |-> 0, den |-> 0]
    ELSE [err |-> "none", num |-> acct.equity * 2, den |-> current_price * 100]

\* calculate_position_size(): the size is the fraction num / den, that is
\* equity * 0.02 / current_price; err names the exception raised.
CalculatePositionSize(acct, current_price) ==
    IF acct.raised THEN [err |-> "AccountError", num |-> 0, den |-> 0]
    ELSE IF current_price <= 0 THEN [err |-> "InvalidPrice", num |-> 0, den |-> 0]
    ELSE [err |-> "none", num |-> acct.equity * 2, den |-> current_price * 100]

NotSized == [err |-> "not called", num |-> 0, den |-> 0]

\* execute_trade with the except branch trusting the local state (no re-query).
ExecuteTradeNoResync(s, close, submitRaised, q1Raised, q2Raised, n) ==
    IF ~submitRaised /\ ~q1Raised
    THEN [self |-> IF n > 0
                   THEN [position_open |-> "True", current_position |-> LONG,
                         stop_loss |-> Some(close * 95),
                         take_profit |-> Some(close * 110)]
                   ELSE [position_open |-> "False", current_position |-> "None",
                         stop_loss |-> None, take_profit |-> None],
          raised |-> FALSE, queries |-> <<n>>]
    ELSE [self |-> s, raised |-> FALSE, queries |-> <<>>]

\* execute_trade with the except branch setting current_position as well as
\* position_open when the broker reports a position (the levels stay as they are).
ExecuteTradeExceptSetsLong(s, close, submitRaised, q1Raised, q2Raised, n) ==
    IF ~submitRaised /\ ~q1Raised
    THEN [self |-> IF n > 0
                   THEN [position_open |-> "True", current_position |-> LONG,
                         stop_loss |-> Some(close * 95),
                         take_profit |-> Some(close * 110)]
                   ELSE [position_open |-> "False", current_position |-> "None",
                         stop_loss |-> None, take_profit |-> None],
          raised |-> FALSE, queries |-> <<n>>]
    ELSE IF q2Raised
         THEN [self |-> s, raised |-> TRUE, queries |-> <<>>]
         ELSE [self |-> IF n > 0
                        THEN [s EXCEPT !.position_open = "True", !.current_position = LONG]
                        ELSE [s EXCEPT !.position_open = "False"],
               raised |-> FALSE, queries |-> <<n>>]

\* execute_trade(side, size): submitRaised = api.submit_order raised;
\* q1Raised / q2Raised = the position query of the try / except branch raised;
\* n = the number of positions the broker reports.
ExecuteTrade(s, close, submitRaised, q1Raised, q2Raised, n) ==
    IF ~submitRaised /\ ~q1Raised
    THEN [self |-> IF n > 0
                   THEN [position_open |-> "True", current_position |-> LONG,
                         stop_loss |-> Some(close * 95),
                         take_profit |-> Some(close * 110)]
                   ELSE [position_open |-> "False", current_position |-> "None",
                         stop_loss |-> None, take_profit |-> None],
          raised |-> FALSE, queries |-> <<n>>]
    ELSE IF q2Raised
         THEN [self |-> s, raised |-> TRUE, queries |-> <<>>]
         ELSE [self |-> [s EXCEPT !.position_open = IF n > 0 THEN "True" ELSE "False"],
               raised |-> FALSE, queries |-> <<n>>]

\* The stop-loss / take-profit comparison of manage_position: comparing a
\* float with None raises TypeError.
LevelsHit(s, close) ==
    IF s.stop_loss = None THEN "TypeError"
    ELSE IF close * 100 <= s.stop_loss[1] THEN "close"
    ELSE IF s.take_profit = None THEN "TypeError"
    ELSE IF close * 100 >= s.take_profit[1] THEN "close"
    ELSE "hold"

\* manage_position closing as soon as the RSI reaches the upper band.
ManagePositionARsiAtBand(s, last) ==
    IF s.current_position = LONG
    THEN IF LevelsHit(s, last.Close) # "hold" THEN LevelsHit(s, last.Close)
         ELSE IF last.Rsi # None /\ last.Rsi[1] >= upper_rsi_band THEN "close" ELSE "hold"
    ELSE "hold"

\* EmaRsiMeanReversionLiveTradingApp.manage_position: "close", "hold" or "TypeError".
ManagePositionA(s, last) ==
    IF s.current_position = LONG
    THEN IF LevelsHit(s, last.Close) # "hold" THEN LevelsHit(s, last.Close)
         ELSE IF Gt(last.Rsi, upper_rsi_band) THEN "close" ELSE "hold"
    ELSE "hold"

\* manage_position closing as soon as the ADX reaches the exit threshold.
ManagePositionBAtThreshold(s, last) ==
    IF last.Adx # None /\ last.Adx[1] <= adx_exit_threshold THEN "close"
    ELSE IF s.current_position = LONG THEN LevelsHit(s, last.Close)
    ELSE "hold"

\* MacdAdxLiveTradingApp.manage_position.
ManagePositionB(s, last) ==
    IF Lt(last.Adx, adx_exit_threshold) THEN "close"
    ELSE IF s.current_position = LONG THEN LevelsHit(s, last.Close)
    ELSE "hold"

ManagePosition(v, s, last) ==
    IF v = "LiveA" THEN ManagePositionA(s, last) ELSE ManagePositionB(s, last)

\* manage_position of MacdAdxLiveTradingApp without the `return` after the
\* first close_position: the second test runs as well.
CloseCallsNoReturn(v, s, last) ==
    IF v = "LiveA" THEN (IF ManagePositionA(s, last) = "close" THEN 1 ELSE 0)
    ELSE (IF Lt(last.Adx, adx_exit_threshold) THEN 1 ELSE 0)
             + (IF s.current_position = LONG /\ LevelsHit(s, last.Close) = "close"
                THEN 1 ELSE 0)

\* The number of close_position calls one manage_position makes: the ADX
\* branch of MacdAdxLiveTradingApp returns after its call.
CloseCalls(v, s, last) == IF ManagePosition(v, s, last) = "close" THEN 1 ELSE 0

\* close_position selling whatever it closes.
CloseSideAlwaysSell(s) == "SELL"

\* close_position: the side of the closing order.
CloseSide(s) == IF s.current_position = LONG THEN "SELL" ELSE "BUY"

\* The buy signal with the previous close at or above the EMA.
BuySignalANotStrict(prev, last) ==
    /\ prev.Close >= prev.Ema
    /\ last.Close < last.Ema
    /\ Lt(last.Rsi, lower_rsi_band)

\* The buy signal of run().
BuySignalA(prev, last) ==
    /\ prev.Close > prev.Ema
    /\ last.Close < last.Ema
    /\ Lt(last.Rsi, lower_rsi_band)

BuySignalB(last) ==
    /\ last.Macd > last.Macd_signal
    /\ last.Plus_di > last.Minus_di
    /\ Gt(last.Adx, adx_threshold)

BuySignal(v, d) == IF v = "LiveA" THEN BuySignalA(d[1], d[2]) ELSE BuySignalB(d[2])

\* run(): `if self.position_open:` (None and False take the else branch).
ManagesPosition(s) == s.position_open = "True"

(***************************************************************************)
(* One iteration of the live run loop after fetch_latest_data and          *)
(* calculate_indicators: the inputs are the broker's answers.              *)
(*   acct         api.get_account()                                        *)
(*   submitRaised api.submit_order raised                                  *)
(*   filled       the order changed the broker-side holding                *)
(*   q1Raised, q2Raised  api.get_all_positions raised (try / except)       *)
(***************************************************************************)
\* The attributes after an iteration that writes position_open back as a
\* boolean when execute_trade was not called.
AfterIterationNormalised(s, trade, ex) ==
    IF trade THEN ex.self
    ELSE [s EXCEPT !.position_open = IF @ = "True" THEN "True" ELSE "False"]

\* The attributes after an iteration: only execute_trade assigns them.
AfterIteration(s, trade, ex) == IF trade THEN ex.self ELSE s

RunCycle(v, s, d, qty, acct, submitRaised, filled, q1Raised, q2Raised) ==
    LET last == d[2]
        open == ManagesPosition(s)
        mp == IF open THEN ManagePosition(v, s, last) ELSE "n/a"
        sized == IF open THEN mp = "close" ELSE TRUE
        size == IF sized THEN CalculatePositionSize(acct, last.Close) ELSE NotSized
        signal == ~open /\ size.err = "none" /\ BuySignal(v, d)
        side == IF open THEN CloseSide(s) ELSE "BUY"
        trade == sized /\ size.err = "none" /\ (open \/ signal)
        qty2 == IF trade THEN SubmitOrder(qty, side, filled) ELSE qty
        ex == ExecuteTrade(s, last.Close, submitRaised, q1Raised, q2Raised,
                           Positions(qty2))
    IN  [self |-> AfterIteration(s, trade, ex),
         broker |-> qty2,
         intent |-> IF open /\ mp = "close" THEN "CLOSE"
                    ELSE IF signal THEN "OPEN_LONG"
                    ELSE IF mp = "TypeError" \/ (sized /\ size.err # "none") THEN "NONE"
                    ELSE "HOLD",
         orders |-> IF ~trade THEN <<>>
                    ELSE IF open THEN [i \in 1..CloseCalls(v, s, last) |-> side]
                    ELSE <<side>>,
         sizing |-> size,
         exec |-> [called |-> trade, returned |-> trade /\ ~ex.raised,
                   submit |-> IF ~trade THEN "none"
                              ELSE IF submitRaised THEN "raised" ELSE "ok",
                   queries |-> IF trade THEN ex.queries ELSE <<>>],
         crash |-> IF mp = "TypeError" THEN "TypeError"
                   ELSE IF sized /\ size.err # "none" THEN size.err
                   ELSE IF trade /\ ex.raised THEN "BrokerError"
                   ELSE "none"]

(***************************************************************************)
(* Backtest strategies (P1EStrategies): next() is called once per bar,     *)
(* after the backtesting library has filled the orders of the previous     *)
(* bar.  pos is what self.position shows during next().                    *)
(***************************************************************************)
\* backtesting.lib.crossover(series1, series2):
\* series1[-2] < series2[-2] and series1[-1] > series2[-1].
Crossover(a_prev, b_prev, a_last, b_last) == a_prev < b_prev /\ a_last > b_last

\* self.stop_loss / self.take_profit set at the entry.
SetLevels(s, close) ==
    [s EXCEPT !.stop_loss = Some(close * 95), !.take_profit = Some(close * 110)]

\* Reading an attribute that was never set raises AttributeError.
LevelsHitAttr(s, close) ==
    IF LevelsHit(s, close) = "TypeError" THEN "AttributeError" ELSE LevelsHit(s, close)

StrategyResult(s, buy, exit) ==
    [self |-> s,
     orders |-> (IF buy THEN <<"BUY">> ELSE <<>>)
                    \o (IF exit = "close" THEN <<"CLOSE">> ELSE <<>>),
     crash |-> IF exit \in {"close", "hold"} THEN "none" ELSE exit]

EmaRsiMeanReversionNext(s, d, pos) ==
    LET prev == d[1]
        last == d[2]
        buy == /\ Crossover(prev.Ema, prev.Close, last.Ema, last.Close)
               /\ last.Close < last.Ema
               /\ Lt(last.Rsi, lower_rsi_band)
               /\ pos # "long"
        s1 == IF buy THEN SetLevels(s, last.Close) ELSE s
        exit == IF pos = "long"
                THEN IF LevelsHitAttr(s1, last.Close) # "hold"
                     THEN LevelsHitAttr(s1, last.Close)
                     ELSE IF Gt(last.Rsi, upper_rsi_band) THEN "close" ELSE "hold"
                ELSE IF pos = "short" THEN "close" ELSE "hold"
    IN  StrategyResult(s1, buy, exit)

BbRsiMeanReversionNext(s, d, pos) ==
    LET prev == d[1]
        last == d[2]
        buy == /\ Crossover(prev.Close, prev.Lower_bb, last.Close, last.Lower_bb)
               /\ last.Close < last.Lower_bb
               /\ Lt(last.Rsi, lower_rsi_band)
               /\ pos # "long"
        s1 == IF buy THEN SetLevels(s, last.Close) ELSE s
        exit == IF pos = "long"
                THEN IF Gt(last.Rsi, bb_upper_rsi_band) THEN "close"
                     ELSE LevelsHitAttr(s1, last.Close)
                ELSE IF pos = "short" THEN "close" ELSE "hold"
    IN  StrategyResult(s1, buy, exit)

MacdAdxTrendFollowingNext(s, d, pos) ==
    LET prev == d[1]
        last == d[2]
        buy == /\ Crossover(prev.Macd, prev.Macd_signal, last.Macd, last.Macd_signal)
               /\ last.Plus_di > last.Minus_di
               /\ Gt(last.Adx, adx_threshold)
               /\ pos # "long"
        s1 == IF buy THEN SetLevels(s, last.Close) ELSE s
        exit == IF pos = "long"
                THEN IF Lt(last.Adx, adx_exit_threshold) THEN "close"
                     ELSE LevelsHitAttr(s1, last.Close)
                ELSE IF pos = "short" THEN "close" ELSE "hold"
    IN  StrategyResult(s1, buy, exit)

\* The exit block is nested in `if not self.position:`.
EmaAdxTrendFollowingNext(s, d, pos) ==
    LET prev == d[1]
        last == d[2]
        buy == /\ pos = "flat"
               /\ Crossover(prev.Short_ema, prev.Long_ema, last.Short_ema, last.Long_ema)
               /\ last.Plus_di > last.Minus_di
               /\ Gt(last.Adx, adx_threshold)
        s1 == IF buy THEN SetLevels(s, last.Close) ELSE s
        exit == IF pos = "flat"
                THEN IF pos = "long"
                     THEN IF Lt(last.Adx, adx_exit_threshold) THEN "close"
                          ELSE LevelsHitAttr(s1, last.Close)
                     ELSE IF pos = "short" THEN "close" ELSE "hold"
                ELSE "hold"
    IN  StrategyResult(s1, buy, exit)

StrategyNext(v, s, d, pos) ==
    IF v = "EmaRsi" THEN EmaRsiMeanReversionNext(s, d, pos)
    ELSE IF v = "BbRsi" THEN BbRsiMeanReversionNext(s, d, pos)
    ELSE IF v = "MacdAdx" THEN MacdAdxTrendFollowingNext(s, d, pos)
    ELSE EmaAdxTrendFollowingNext(s, d, pos)

\* The library fills the orders placed in the previous next() at the bar's
\* open: self.buy() opens a long trade, position.close() closes the trades.
RECURSIVE FillOrders(_, _)
FillOrders(pos, os) ==
    IF os = <<>> THEN pos
    ELSE FillOrders(IF Head(os) = "BUY" THEN "long" ELSE "flat", Tail(os))

\* The intent an evaluation produced, from the orders it placed.
IntentOf(os) ==
    IF os = <<>> THEN "HOLD" ELSE IF Head(os) = "BUY" THEN "OPEN_LONG" ELSE "CLOSE"

(***************************************************************************)
(* Indicator functions (P1Ftechnical_indicators, and the same formulas in   *)
(* calculate_indicators of the live apps), in exact arithmetic: a float is  *)
(* a fraction <<n, d>> in lowest terms with d > 0, NaN is None, and         *)
(* +inf / -inf are <<1, 0>> / <<-1, 0>>.  Series are 1-based: index i here  *)
(* is position i - 1 in the code.                                           *)
(***************************************************************************)
rsi_window == 10
macd_short_window == 14
macd_long_window == 28
macd_signal_window == 9
adx_window == 13
ema_adx_window == 14
ema_short_window == 12
ema_long_window == 26

NaN == None

Abs(x) == IF x < 0 THEN -x ELSE x
Max1(x) == IF x < 1 THEN 1 ELSE x
Min2(x, y) == IF x < y THEN x ELSE y

RECURSIVE GCD(_, _)
GCD(a, b) == IF b = 0 THEN a ELSE GCD(b, a % b)

\* The only member of a one-element set.  Below, {e : x \in {a}} is e with x
\* standing for the value of a, computed once.
The(S) == CHOOSE x \in S : TRUE

\* The float n / d (numpy semantics: 0/0 is NaN, x/0 is +-inf).
Q(n0, d0) ==
    The({IF d = 0 THEN (IF n = 0 THEN NaN ELSE <<IF n > 0 THEN 1 ELSE -1, 0>>)
         ELSE The({<<(IF d < 0 THEN -1 ELSE 1) * (n \div g),
                     (IF d < 0 THEN -1 ELSE 1) * (d \div g)>> : g \in {GCD(Abs(n), Abs(d))}})
         : n \in {n0}, d \in {d0}})

Num(v) == <<v, 1>>

QNeg(a0) == The({IF a = NaN THEN NaN ELSE <<-a[1], a[2]>> : a \in {a0}})

QAdd(a0, b0) ==
    The({IF a = NaN \/ b = NaN THEN NaN
         ELSE IF a[2] = 0 /\ b[2] = 0 THEN (IF a[1] = b[1] THEN a ELSE NaN)
         ELSE IF a[2] = 0 THEN a
         ELSE IF b[2] = 0 THEN b
         ELSE The({Q(a[1] * (b[2] \div g) + b[1] * (a[2] \div g), (a[2] \div g) * b[2])
                   : g \in {GCD(a[2], b[2])}})
         : a \in {a0}, b \in {b0}})

QSub(a, b) == QAdd(a, QNeg(b))

QMul(a0, b0) ==
    The({IF a = NaN \/ b = NaN THEN NaN
         ELSE The({Q((a[1] \div g1) * (b[1] \div g2), (a[2] \div g2) * (b[2] \div g1))
                   : g1 \in {Max1(GCD(Abs(a[1]), b[2]))}, g2 \in {Max1(GCD(Abs(b[1]), a[2]))}})
         : a \in {a0}, b \in {b0}})

QDiv(a0, b0) ==
    The({IF a = NaN \/ b = NaN THEN NaN
         ELSE IF b[1] < 0 THEN QMul(a, <<-b[2], -b[1]>>)
         ELSE QMul(a, <<b[2], b[1]>>)
         : a \in {a0}, b \in {b0}})

\* Comparisons of floats: every comparison with NaN is False.
QLt(a, b) == The({s # NaN /\ s[1] < 0 : s \in {QSub(a, b)}})
QGt(a, b) == QLt(b, a)

QAbs(a0) == The({IF a = NaN THEN NaN ELSE <<Abs(a[1]), a[2]>> : a \in {a0}})

\* np.maximum: NaN if either argument is NaN.
QMax(a0, b0) ==
    The({IF a = NaN \/ b = NaN THEN NaN ELSE IF QLt(a, b) THEN b ELSE a
         : a \in {a0}, b \in {b0}})

\* sum(xs[lo..hi]).
RECURSIVE QSum(_, _, _)
QSum(xs, lo, hi) == IF hi < lo THEN Num(0) ELSE QAdd(xs[hi], QSum(xs, lo, hi - 1))

\* n NaN entries.
NaNs(n) == [i \in 1..n |-> NaN]

\* calculate_ema, the loop of lines 50-51: ema.append(alpha * prices[i] +
\* (1 - alpha) * ema[-1]) for the positions after the first `window`.
RECURSIVE EmaLoop(_, _, _, _)
EmaLoop(ema0, prices, alpha, i) ==
    The({IF i > Len(prices) THEN ema
         ELSE EmaLoop(Append(ema, QAdd(QMul(alpha, prices[i]),
                                       QMul(QSub(Num(1), alpha), ema[Len(ema)]))),
                      prices, alpha, i + 1)
         : ema \in {ema0}})

\* calculate_ema seeded with the last price of the first window, not their mean.
CalculateEmaSeedLastPrice(prices0, window) ==
    The({IF Len(prices) >= window
         THEN [err |-> "none",
               values |-> NaNs(window - 1)
                             \o EmaLoop(<<prices[window]>>, prices, Q(2, window + 1),
                                        window + 1)]
         ELSE [err |-> "ValueError", values |-> <<>>]
         : prices \in {prices0}})

\* calculate_ema without the check of the number of points: the seed is the
\* mean of the points there are.
CalculateEmaNoCheck(prices0, window) ==
    The({[err |-> "none",
          values |-> NaNs(window - 1)
                        \o EmaLoop(<<QDiv(QSum(prices, 1, Min2(window, Len(prices))),
                                          Num(window))>>,
                                   prices, Q(2, window + 1), window + 1)]
         : prices \in {prices0}})

\* calculate_ema(prices, window): err names the exception raised.
CalculateEma(prices0, window) ==
    The({IF Len(prices) >= window
         THEN [err |-> "none",
               values |-> NaNs(window - 1)
                             \o EmaLoop(<<QDiv(QSum(prices, 1, window), Num(window))>>,
                                        prices, Q(2, window + 1), window + 1)]
         ELSE [err |-> "ValueError", values |-> <<>>]
         : prices \in {prices0}})

\* prices.diff(): NaN at the first position.
Diff(prices, i) == IF i = 1 THEN NaN ELSE QSub(prices[i], prices[i - 1])

\* delta.where(delta > 0, 0) and -delta.where(delta < 0, 0).
Gain(prices0) ==
    The({[i \in 1..Len(prices) |->
             The({IF QGt(delta, Num(0)) THEN delta ELSE Num(0) : delta \in {Diff(prices, i)}})]
         : prices \in {prices0}})
Loss(prices0) ==
    The({[i \in 1..Len(prices) |->
             The({IF QLt(delta, Num(0)) THEN QNeg(delta) ELSE Num(0)
                  : delta \in {Diff(prices, i)}})]
         : prices \in {prices0}})

\* x.rolling(window, min_periods=window).mean() at position i.
RollingMean(x, window, i) ==
    IF i >= window THEN QDiv(QSum(x, i - window + 1, i), Num(window)) ELSE NaN

\* calculate_rsi_smoothed, the loop of lines 106-108 on one of avg_gain, avg_loss.
RECURSIVE SmoothLoop(_, _, _, _)
SmoothLoop(avg0, x, window, i) ==
    The({IF i > Len(x) THEN avg
         ELSE SmoothLoop(Append(avg, QDiv(QAdd(QMul(avg[i - 1], Num(window - 1)), x[i]),
                                          Num(window))),
                         x, window, i + 1)
         : avg \in {avg0}})

\* avg_gain / avg_loss of calculate_rsi_smoothed after the loop.
Smoothed(x0, window) ==
    The({IF Len(x) < window THEN NaNs(Len(x))
         ELSE SmoothLoop(NaNs(window - 1) \o <<RollingMean(x, window, window)>>,
                         x, window, window + 1)
         : x \in {x0}})

\* The RSI with rs inverted: rs = avg_loss / avg_gain.
RsiOfLossOverGain(avg_gain, avg_loss) ==
    QSub(Num(100), QDiv(Num(100), QAdd(Num(1), QDiv(avg_loss, avg_gain))))

\* 100 - (100 / (1 + rs)) with rs = avg_gain / avg_loss.
RsiOf(avg_gain, avg_loss) ==
    QSub(Num(100), QDiv(Num(100), QAdd(Num(1), QDiv(avg_gain, avg_loss))))

\* calculate_rsi_smoothed with a window without gains or losses read as 50.
CalculateRsiSmoothedFlatFifty(prices, window) ==
    The({[i \in 1..Len(avg_gain) |->
             IF i <= window THEN NaN
             ELSE IF RsiOf(avg_gain[i], avg_loss[i]) = NaN THEN Num(50)
             ELSE RsiOf(avg_gain[i], avg_loss[i])]
         : avg_gain \in {Smoothed(Gain(prices), window)},
           avg_loss \in {Smoothed(Loss(prices), window)}})

\* calculate_rsi_smoothed(prices, window): rsi.iloc[:window] = NaN.
CalculateRsiSmoothed(prices, window) ==
    The({[i \in 1..Len(avg_gain) |->
             IF i <= window THEN NaN ELSE RsiOf(avg_gain[i], avg_loss[i])]
         : avg_gain \in {Smoothed(Gain(prices), window)},
           avg_loss \in {Smoothed(Loss(prices), window)}})

\* EmaRsiMeanReversionLiveTradingApp.calculate_indicators, the RSI: gain and
\* loss are rolling means over the window, without smoothing, from the
\* position window - 1 on.
LiveRsi(prices, window) ==
    The({[i \in 1..Len(gain) |->
             RsiOf(RollingMean(gain, window, i), RollingMean(loss, window, i))]
         : gain \in {Gain(prices)}, loss \in {Loss(prices)}})

\* pandas x.ewm(span=span, adjust=False).mean(): the recursion starts at the
\* first observation; a NaN input repeats the last value and ages its weight.
RECURSIVE EwmLoop(_, _, _, _, _, _)
EwmLoop(out0, x, alpha, weighted0, old_wt0, i) ==
    The({IF i > Len(x) THEN out
         ELSE The({EwmLoop(Append(out, w2), x, alpha, w2,
                           IF weighted = NaN THEN old_wt
                           ELSE IF x[i] = NaN THEN aged ELSE Num(1),
                           i + 1)
                   : w2 \in {IF weighted = NaN THEN x[i]
                             ELSE IF x[i] = NaN THEN weighted
                             ELSE QDiv(QAdd(QMul(aged, weighted), QMul(alpha, x[i])),
                                       QAdd(aged, alpha))}})
         : out \in {out0}, weighted \in {weighted0}, old_wt \in {old_wt0},
           aged \in {QMul(old_wt0, QSub(Num(1), alpha))}})

Ewm(x0, span) ==
    The({IF x = <<>> THEN <<>>
         ELSE EwmLoop(<<x[1]>>, x, Q(2, span + 1), x[1], Num(1), 2)
         : x \in {x0}})

\* calculate_macd: the MACD line and the signal line.
CalculateMacd(prices, short_window, long_window, signal_window) ==
    The({[macd |-> macd, signal |-> Ewm(macd, signal_window)]
         : macd \in {The({[i \in 1..Len(short_ema) |-> QSub(short_ema[i], long_ema[i])]
                          : short_ema \in {Ewm(prices, short_window)},
                            long_ema \in {Ewm(prices, long_window)}})}})

\* The shifted column x.shift(1) at position i, x being a column of the bars.
ShiftHigh(bars, i) == IF i = 1 THEN NaN ELSE Num(bars[i - 1].High)
ShiftLow(bars, i) == IF i = 1 THEN NaN ELSE Num(bars[i - 1].Low)
ShiftClose(bars, i) == IF i = 1 THEN NaN ELSE Num(bars[i - 1].Close)

\* calculate_adx, lines 148-158: TR, +DM and -DM of the bars.
TrueRange(bars) ==
    [i \in 1..Len(bars) |->
        QMax(Num(bars[i].High - bars[i].Low),
             QMax(QAbs(QSub(Num(bars[i].High), ShiftClose(bars, i))),
                  QAbs(QSub(Num(bars[i].Low), ShiftClose(bars, i)))))]

PlusDm(bars) ==
    [i \in 1..Len(bars) |->
        The({IF QGt(up, down) THEN QMax(up, Num(0)) ELSE Num(0)
             : up \in {QSub(Num(bars[i].High), ShiftHigh(bars, i))},
               down \in {QSub(ShiftLow(bars, i), Num(bars[i].Low))}})]

MinusDm(bars) ==
    [i \in 1..Len(bars) |->
        The({IF QGt(down, up) THEN QMax(down, Num(0)) ELSE Num(0)
             : up \in {QSub(Num(bars[i].High), ShiftHigh(bars, i))},
               down \in {QSub(ShiftLow(bars, i), Num(bars[i].Low))}})]

\* calculate_adx, lines 161-180, from TR, +DM, -DM to +DI, -DI, DX and ADX.
AdxColumns(tr0, plus_dm0, minus_dm0, window, zero_fill) ==
    The({The({[tr |-> tr, plus_dm |-> plus_dm, minus_dm |-> minus_dm,
               plus_di |-> plus_di, minus_di |-> minus_di,
               adx |-> Ewm([i \in 1..Len(tr) |->
                               The({IF zero_fill /\ dx = NaN THEN Num(0) ELSE dx
                                    : dx \in {QDiv(QMul(Num(100),
                                                        QAbs(QSub(plus_di[i], minus_di[i]))),
                                                   QAdd(plus_di[i], minus_di[i]))}})],
                           window)]
              : plus_di \in {[i \in 1..Len(tr) |->
                                QMul(Num(100), QDiv(plus_dm_smooth[i], tr_smooth[i]))]},
                minus_di \in {[i \in 1..Len(tr) |->
                                 QMul(Num(100), QDiv(minus_dm_smooth[i], tr_smooth[i]))]}})
         : tr \in {tr0}, plus_dm \in {plus_dm0}, minus_dm \in {minus_dm0},
           tr_smooth \in {Ewm(tr0, window)},
           plus_dm_smooth \in {Ewm(plus_dm0, window)},
           minus_dm_smooth \in {Ewm(minus_dm0, window)}})

\* calculate_adx with an undefined DX (0 / 0) filled with 0.
CalculateAdxZeroFill(bars, window) ==
    AdxColumns(TrueRange(bars), PlusDm(bars), MinusDm(bars), window, TRUE)

\* calculate_adx(data, window): the columns it adds.
CalculateAdx(bars, window) ==
    AdxColumns(TrueRange(bars), PlusDm(bars), MinusDm(bars), window, FALSE)

(***************************************************************************)
(* State machine                                                           *)
(***************************************************************************)
\* No evaluation cycle has run since the last fetch.
NoCycle == [ran |-> FALSE]

\* BUY orders counted per bar: MaxBarBuys stands for that many or more.
MaxBarBuys == 2
UpTo(n, max) == IF n > max THEN max ELSE n

\* The BUY orders among the orders of one iteration.
Buys(os) == Cardinality({i \in DOMAIN os : os[i] = "BUY"})

\* The run is not fed from a bar series: its rows are drawn from Rows(variant).
NoSeries == [bars |-> <<>>, window |-> 0, ind |-> <<>>, bar |-> 0, err |-> "none"]

Init ==
    /\ variant \in Variants
    /\ pc = "fetch"
    /\ \E r1 \in Rows(variant), r2 \in Rows(variant) : data = <<PrevRow(variant, r1), r2>>
    /\ self = NewSelf
    /\ broker \in (IF variant \in Live THEN {0, 1} ELSE {0})
    /\ position = "flat"
    /\ orders = <<>>
    /\ cycle = NoCycle
    /\ entry_price = None
    /\ series = NoSeries
    /\ bar_buys = 0

\* fetch_latest_data appends a new bar (live), or the backtest feeds the next bar.
NewBar ==
    /\ pc = "fetch"
    /\ \E row \in Rows(variant) : data' = <<PrevRow(variant, data[2]), row>>
    /\ pc' = "evaluate"
    /\ cycle' = NoCycle
    /\ bar_buys' = 0
    /\ UNCHANGED <<variant, self, broker, position, orders, entry_price, series>>

\* fetch_latest_data finds no new bar, or fails and logs the error.
NoNewData ==
    /\ pc = "fetch"
    /\ variant \in Live
    /\ pc' = "evaluate"
    /\ cycle' = NoCycle
    /\ UNCHANGED <<variant, data, self, broker, position, orders, entry_price, series,
                   bar_buys>>

\* run(): the maximum runtime is reached (sys.exit); the backtest runs out of bars.
Exit ==
    /\ pc = "fetch"
    /\ pc' = "exited"
    /\ cycle' = NoCycle
    /\ UNCHANGED <<variant, data, self, broker, position, orders, entry_price, series,
                   bar_buys>>

\* The rest of one iteration of run(): manage the position or check for a buy signal.
LiveCycle ==
    /\ pc = "evaluate"
    /\ variant \in Live
    /\ \E acct \in AccountOutcomes, submitRaised \in BOOLEAN, filled \in BOOLEAN,
          q1Raised \in BOOLEAN, q2Raised \in BOOLEAN :
          LET r == RunCycle(variant, self, data, broker, acct, submitRaised, filled,
                            q1Raised, q2Raised)
          IN  /\ self' = r.self
              /\ broker' = r.broker
              /\ cycle' = [ran |-> TRUE, open |-> self.position_open = "True",
                           start |-> self, intent |-> r.intent,
                           orders |-> r.orders, sizing |-> r.sizing, exec |-> r.exec,
                           crash |-> r.crash, price |-> data[2].Close,
                           acct |-> IF r.sizing.err = "not called"
                                    THEN [raised |-> FALSE, equity |-> 0] ELSE acct]
              /\ entry_price' = IF r.intent = "OPEN_LONG" THEN Some(data[2].Close)
                                ELSE entry_price
              /\ bar_buys' = UpTo(bar_buys + Buys(r.orders), MaxBarBuys)
              /\ pc' = IF r.crash = "none" THEN "fetch" ELSE "crashed"
    /\ UNCHANGED <<variant, data, position, orders, series>>

\* One bar of a backtest: the library fills the pending orders, then next() runs.
BacktestNext ==
    /\ pc = "evaluate"
    /\ variant \in Backtests
    /\ LET pos == FillOrders(position, orders)
           r == StrategyNext(variant, self, data, pos)
       IN  /\ position' = pos
           /\ orders' = r.orders
           /\ self' = r.self
           /\ cycle' = [ran |-> TRUE, open |-> pos # "flat", start |-> self,
                        intent |-> IntentOf(r.orders), orders |-> r.orders,
                        crash |-> r.crash, price |-> data[2].Close]
           /\ entry_price' = IF IntentOf(r.orders) = "OPEN_LONG" THEN Some(data[2].Close)
                             ELSE entry_price
           /\ pc' = IF r.crash = "none" THEN "fetch" ELSE "crashed"
    /\ UNCHANGED <<variant, data, broker, series, bar_buys>>

Next == NewBar \/ NoNewData \/ Exit \/ LiveCycle \/ BacktestNext

Spec == Init /\ [][Next]_vars

(***************************************************************************)
(* The reconciler on its own: execute_trade(BUY, size) called repeatedly   *)
(* for one OPEN_LONG intent on unchanged data, against a broker that       *)
(* reports exactly one open position after every call.                     *)
(***************************************************************************)
\* Calls of execute_trade per intent.
MaxReconciles == 2

InitReconcile ==
    /\ variant \in Live
    /\ pc = "reconcile"
    /\ \E r1 \in Rows(variant), r2 \in Rows(variant) : data = <<PrevRow(variant, r1), r2>>
    /\ BuySignal(variant, data)
    /\ data[2].Close > 0
    /\ self = NewSelf
    /\ broker \in {0, 1}
    /\ position = "flat"
    /\ orders = <<>>
    /\ cycle = [ran |-> FALSE, results |-> <<>>, submits |-> <<>>]
    /\ entry_price = Some(data[2].Close)
    /\ series = NoSeries
    /\ bar_buys = 0

Reconcile ==
    /\ pc = "reconcile"
    /\ Len(cycle.results) < MaxReconciles
    /\ \E submitRaised \in BOOLEAN, filled \in BOOLEAN, q1Raised \in BOOLEAN,
          q2Raised \in BOOLEAN :
          LET qty2 == SubmitOrder(broker, "BUY", filled)
              ex == ExecuteTrade(self, data[2].Close, submitRaised, q1Raised, q2Raised,
                                 Positions(qty2))
          IN  /\ Positions(qty2) = 1
              /\ ~ex.raised
              /\ self' = ex.self
              /\ broker' = qty2
              /\ cycle' = [ran |-> TRUE,
                           results |-> Append(cycle.results, ex.self),
                           submits |-> Append(cycle.submits,
                                              IF submitRaised THEN "raised" ELSE "ok")]
    /\ UNCHANGED <<variant, pc, data, position, orders, entry_price, series, bar_buys>>

SpecReconcile == InitReconcile /\ [][Reconcile]_vars

(***************************************************************************)
(* Runs fed from a bar series: the indicator columns are computed from the *)
(* bars by the indicator functions, and each bar's row is what next() /     *)
(* run() reads of them.                                                     *)
(***************************************************************************)
\* Bars per series.
MaxBars == 13
\* Bars of a series whose closes are drawn freely.
MaxFreeBars == 3

\* ema_window, a parameter of calculate_ema (short windows: the series are short).
EmaWindows == {1, 2, 3}

SeriesVariants == {"EmaRsi", "LiveA", "MacdAdx", "EmaAdx", "LiveB"}

\* A bar without range: high = low = close.
Bar(c) == [High |-> c, Low |-> c, Close |-> c]

\* 100, 98, 96, ...
Declining(n) == [i \in 1..n |-> Bar(100 - 2 * (i - 1))]
Flat(c, n) == [i \in 1..n |-> Bar(c)]
\* A rise of 1 per bar and then a fall below the EMA.
Peak == [i \in 1..13 |-> Bar(IF i <= 11 THEN 29 + i ELSE 10)]
\* The same with the fall one bar earlier, on the bar after the RSI window.
EarlyPeak == [i \in 1..12 |-> Bar(IF i <= 10 THEN 29 + i ELSE 10)]

FreeSeries == UNION {[1..n -> {Bar(1), Bar(2), Bar(4)}] : n \in 1..MaxFreeBars}

MovingBars == {Bar(10), [High |-> 12, Low |-> 10, Close |-> 12],
               [High |-> 12, Low |-> 8, Close |-> 9]}

SeriesOf(v) ==
    IF v \in {"EmaRsi", "LiveA"}
    THEN FreeSeries \cup {Peak, EarlyPeak}
             \cup {Declining(n) : n \in (rsi_window + 1)..MaxBars}
             \cup {Flat(100, n) : n \in (rsi_window + 1)..MaxBars}
    ELSE {Flat(10, n) : n \in 2..MaxBars}
             \cup UNION {[1..n -> MovingBars] : n \in 2..3}

WindowsOf(v) == IF v \in {"EmaRsi", "LiveA"} THEN EmaWindows ELSE {0}

\* data[CLOSE] as floats.
Closes(bars) == [i \in 1..Len(bars) |-> Num(bars[i].Close)]

\* Strategy.init / calculate_indicators: the indicator columns of a variant.
IndicatorsOf(v, bars, window) ==
    IF v = "EmaRsi"
    THEN LET ema == CalculateEma(Closes(bars), window)
         IN  [err |-> ema.err,
              ind |-> [ema |-> ema.values,
                       rsi |-> CalculateRsiSmoothed(Closes(bars), rsi_window)]]
    ELSE IF v = "LiveA"
    THEN [err |-> "none",
          ind |-> [ema |-> Ewm(Closes(bars), window),
                   rsi |-> LiveRsi(Closes(bars), rsi_window)]]
    ELSE IF v = "EmaAdx"
    THEN [err |-> "none",
          ind |-> [short_ema |-> Ewm(Closes(bars), ema_short_window),
                   long_ema |-> Ewm(Closes(bars), ema_long_window),
                   adx |-> CalculateAdx(bars, ema_adx_window)]]
    ELSE [err |-> "none",
          ind |-> [macd |-> CalculateMacd(Closes(bars), macd_short_window,
                                          macd_long_window, macd_signal_window),
                   adx |-> CalculateAdx(bars, adx_window)]]

\* The columns declared as indicators (self.I), or computed by calculate_indicators.
IndicatorColumns(v, ind) ==
    IF v \in {"EmaRsi", "LiveA"} THEN {ind.ema, ind.rsi}
    ELSE IF v = "EmaAdx"
    THEN {ind.short_ema, ind.long_ema, ind.adx.adx, ind.adx.plus_di, ind.adx.minus_di}
    ELSE {ind.macd.macd, ind.macd.signal, ind.adx.adx, ind.adx.plus_di, ind.adx.minus_di}

Min(S) == CHOOSE x \in S : \A y \in S : x <= y
Max(S) == CHOOSE x \in S : \A y \in S : x >= y

\* Backtest.run: start = 1 + max over the indicators of
\* np.isnan(indicator).argmin(), the position of the first value that is not
\* NaN (0 if there is none); next() is first called on the bar after `start`
\* bars.
FirstValid(col) ==
    IF \E i \in DOMAIN col : col[i] # NaN
    THEN Min({i \in DOMAIN col : col[i] # NaN})
    ELSE 1
Start(v, ind) == Max({FirstValid(col) : col \in IndicatorColumns(v, ind)})

\* The first bar on which every indicator of the variant is defined (0: none).
FirstUsableBar(v, ind, n) ==
    LET usable == {i \in 1..n : \A col \in IndicatorColumns(v, ind) : col[i] # NaN}
    IN  IF usable = {} THEN 0 ELSE Min(usable)

\* What the entry and exit tests read of two floats a and b: whether a > b,
\* a < b or neither (equal, or one of them NaN).
SignCode(a, b) == IF QGt(a, b) THEN 2 ELSE IF QLt(a, b) THEN 0 ELSE 1

\* An indicator that is only compared with whole-number thresholds, as a whole
\* number: rounded down below mid and up from mid on, so that `< n` (n <= mid)
\* and `> n` (n >= mid) are unchanged.
Toward(q, mid) ==
    IF q = NaN THEN None
    ELSE IF QLt(q, Num(mid)) THEN Some(q[1] \div q[2])
    ELSE Some(-((-q[1]) \div q[2]))

\* The row of bar i as the variant's tests read it.  An EMA is only compared
\* with the close of its own bar, the MACD with its signal, +DI with -DI, the
\* short EMA with the long one.
RowAt(v, bars, ind, i) ==
    IF v \in {"EmaRsi", "LiveA"}
    THEN [Close |-> bars[i].Close,
          Ema |-> bars[i].Close + SignCode(ind.ema[i], Num(bars[i].Close)) - 1,
          Rsi |-> Toward(ind.rsi[i], 50)]
    ELSE IF v = "EmaAdx"
    THEN [Close |-> bars[i].Close,
          Short_ema |-> SignCode(ind.short_ema[i], ind.long_ema[i]), Long_ema |-> 1,
          Plus_di |-> SignCode(ind.adx.plus_di[i], ind.adx.minus_di[i]), Minus_di |-> 1,
          Adx |-> Toward(ind.adx.adx[i], adx_threshold)]
    ELSE [Close |-> bars[i].Close,
          Macd |-> SignCode(ind.macd.macd[i], ind.macd.signal[i]), Macd_signal |-> 1,
          Plus_di |-> SignCode(ind.adx.plus_di[i], ind.adx.minus_di[i]), Minus_di |-> 1,
          Adx |-> Toward(ind.adx.adx[i], adx_threshold)]

InitSeries ==
    /\ variant \in SeriesVariants
    /\ pc = "init"
    /\ \E b \in SeriesOf(variant), w \in WindowsOf(variant) :
          series = [bars |-> b, window |-> w, ind |-> <<>>, bar |-> 0, err |-> "none"]
    /\ data = <<>>
    /\ self = NewSelf
    /\ broker = 0
    /\ position = "flat"
    /\ orders = <<>>
    /\ cycle = NoCycle
    /\ entry_price = None
    /\ bar_buys = 0

\* Backtest: Strategy.init computes the indicators over the whole data and the
\* library skips the first `start` bars.  Live: fetch_historical_data loads
\* the first h bars (at least two) and the loop starts.
InitIndicators ==
    /\ pc = "init"
    /\ LET r == IndicatorsOf(variant, series.bars, series.window)
           n == Len(series.bars)
       IN  IF r.err # "none"
           THEN /\ series' = [series EXCEPT !.err = r.err]
                /\ pc' = "crashed"
                /\ data' = data
           ELSE \E h \in (IF variant \in Live THEN 2..n ELSE {Start(variant, r.ind)}) :
                   /\ series' = [series EXCEPT !.ind = r.ind, !.bar = h]
                   /\ pc' = "fetch"
                   /\ data' = IF variant \in Live
                              THEN <<PrevRow(variant, RowAt(variant, series.bars, r.ind, h - 1)),
                                     RowAt(variant, series.bars, r.ind, h)>>
                              ELSE data
    /\ UNCHANGED <<variant, self, broker, position, orders, cycle, entry_price, bar_buys>>

\* The next bar of the series arrives.
SeriesBar ==
    /\ pc = "fetch"
    /\ series.bar >= 1
    /\ series.bar < Len(series.bars)
    /\ series' = [series EXCEPT !.bar = @ + 1]
    /\ data' = <<PrevRow(variant, RowAt(variant, series.bars, series.ind, series.bar)),
                 RowAt(variant, series.bars, series.ind, series.bar + 1)>>
    /\ pc' = "evaluate"
    /\ cycle' = NoCycle
    /\ bar_buys' = 0
    /\ UNCHANGED <<variant, self, broker, position, orders, entry_price>>

NextSeries == InitIndicators \/ SeriesBar \/ NoNewData \/ LiveCycle \/ BacktestNext

SpecSeries == InitSeries /\ [][NextSeries]_vars

(***************************************************************************)
(* Properties                                                              *)
(***************************************************************************)
IsLive == variant \in Live
LiveRan == IsLive /\ cycle.ran

\* The position is open: position_open (live), self.position (backtest).
IsOpen == IF IsLive THEN self.position_open = "True" ELSE position # "flat"
LevelsSet == self.stop_loss # None /\ self.take_profit # None
LevelsCleared == self.stop_loss = None /\ self.take_profit = None

\* C1: in every variant, no buy is issued in an evaluation cycle that starts
\* with the position open: neither the OPEN_LONG intent of the entry branch
\* nor a BUY order, whatever the indicators are.
C1_NoBuyWhileOpen ==
    (cycle.ran /\ cycle.open) =>
        /\ cycle.intent # "OPEN_LONG"
        /\ \A i \in DOMAIN cycle.orders : cycle.orders[i] # "BUY"

\* C2: whenever execute_trade returns, after a successful or a failed
\* submission, one position query of that call was answered and position_open
\* is True iff that answer listed at least one position.
C2_ResyncOnReturn ==
    (LiveRan /\ cycle.exec.returned) =>
        /\ Len(cycle.exec.queries) = 1
        /\ self.position_open = (IF cycle.exec.queries[1] > 0 THEN "True" ELSE "False")

\* C2 witness: the submission raised, execute_trade returned, and the broker's
\* answer overrode the local state (flat before, open after).
C2_Witness ==
    /\ LiveRan /\ cycle.exec.returned
    /\ cycle.exec.submit = "raised"
    /\ cycle.start.position_open # "True"
    /\ self.position_open = "True"

\* C3: if the submission failed and the broker then reports one open position,
\* the cycle ends LONG: position_open true, current_position long, stop_loss
\* and take_profit set.
C3_FailedSubmitEndsLong ==
    (/\ LiveRan /\ cycle.exec.returned
     /\ cycle.exec.submit = "raised"
     /\ cycle.exec.queries = <<1>>) =>
        /\ self.position_open = "True"
        /\ self.current_position = LONG
        /\ LevelsSet

\* C4 (at the live apps): in every reachable state stop_loss and take_profit
\* are set if and only if the position is open.
C4_LevelsSetIffOpen ==
    IsLive => /\ LevelsSet <=> IsOpen
              /\ LevelsCleared <=> ~IsOpen

\* C5 (at the live close_position / execute_trade path): a CLOSE from LONG
\* after which the broker reports no position leaves the state FLAT with
\* current_position, stop_loss and take_profit cleared.
C5_CloseResetsState ==
    (/\ LiveRan /\ cycle.intent = "CLOSE"
     /\ cycle.start.current_position = LONG
     /\ cycle.exec.returned
     /\ cycle.exec.queries = <<0>>) =>
        /\ self.position_open = "False"
        /\ self.current_position = "None"
        /\ LevelsCleared

\* C6: whenever a position is open, stop_loss = 0.95 * entry_price and
\* take_profit = 1.10 * entry_price, entry_price being the close of the bar of
\* the OPEN_LONG decision, and stop_loss < entry_price < take_profit.
C6_LevelsFromEntryPrice ==
    IsOpen =>
        /\ entry_price # None
        /\ self.stop_loss = Some(entry_price[1] * 95)
        /\ self.take_profit = Some(entry_price[1] * 110)
        /\ entry_price[1] * 95 < entry_price[1] * 100
        /\ entry_price[1] * 100 < entry_price[1] * 110

\* A position is observed open but is not long, at the start of the cycle.
OpenNotLong ==
    /\ cycle.open
    /\ IF IsLive THEN cycle.start.current_position # LONG ELSE position = "short"

\* C7: whenever a position is observed open but is not long, the evaluation
\* cycle issues a CLOSE, whatever the indicators are.
C7_CloseWhenOpenNotLong == (cycle.ran /\ OpenNotLong) => cycle.intent = "CLOSE"

\* C8: no failure inside a live polling cycle (invalid price, failing account
\* query, order submission or position query) terminates the polling loop.
C8_LoopSurvivesFailures == IsLive => pc # "crashed"

\* C9: position sizing, given the account equity, fails with the invalid-price
\* error whenever the latest close is <= 0, and then no order is submitted and
\* the position state is unchanged; for a close > 0 it returns
\* equity * 0.02 / close (num / den = 2 * equity / (100 * close)).
C9_PositionSizing ==
    (LiveRan /\ cycle.sizing.err # "not called" /\ ~cycle.acct.raised) =>
        IF cycle.price <= 0
        THEN /\ cycle.sizing.err = "InvalidPrice"
             /\ cycle.orders = <<>>
             /\ ~cycle.exec.called
             /\ self = cycle.start
        ELSE /\ cycle.sizing.err = "none"
             /\ cycle.sizing.num = 2 * cycle.acct.equity
             /\ cycle.sizing.den = 100 * cycle.price

\* C9 witness: the bar shows the buy signal at an invalid price: sizing failed
\* and nothing was ordered.
C9_Witness ==
    /\ LiveRan
    /\ cycle.sizing.err = "InvalidPrice"
    /\ BuySignal(variant, data)
    /\ cycle.orders = <<>>

\* C10: given an OPEN_LONG intent, two consecutive reconciliation cycles
\* against a broker that reports exactly one open position both end with
\* position_open true and with identical stop_loss and take_profit.
C10_ReconcilerIdempotent ==
    Len(cycle.results) >= 2 =>
        /\ cycle.results[1].position_open = "True"
        /\ cycle.results[2].position_open = "True"
        /\ cycle.results[1].stop_loss = cycle.results[2].stop_loss
        /\ cycle.results[1].take_profit = cycle.results[2].take_profit

\* The cycle ran one of the EMA/RSI mean-reversion programs and position
\* sizing, where it was called, returned a size.
EmaRsiCycle ==
    /\ cycle.ran
    /\ variant \in {"EmaRsi", "LiveA"}
    /\ cycle.crash \notin {"InvalidPrice", "AccountError"}

\* No long position is open at the start of the cycle.
NoLongOpen == IF IsLive THEN ~cycle.open ELSE position # "long"

C12_EntryOnlyOnMacdCross ==
    (cycle.ran /\ variant \in {"MacdAdx", "LiveB"} /\ cycle.intent = "OPEN_LONG") =>
        /\ data[1].Macd < data[1].Macd_signal
        /\ data[2].Macd > data[2].Macd_signal
        /\ data[2].Plus_di > data[2].Minus_di
        /\ Gt(data[2].Adx, adx_threshold)
        /\ NoLongOpen

\* C13: the Bollinger/RSI variant issues OPEN_LONG on a bar where the close
\* crossed below the lower band (above it on the previous bar, below it on
\* this one), RSI < lower band and no long position is open.
C13_BbRsiEntry ==
    (/\ cycle.ran /\ variant = "BbRsi"
     /\ data[2].Close > 0
     /\ data[1].Close > data[1].Lower_bb
     /\ data[2].Close < data[2].Lower_bb
     /\ Lt(data[2].Rsi, lower_rsi_band)
     /\ NoLongOpen) =>
        cycle.intent = "OPEN_LONG"

\* C14: on any bar where the EMA-crossover/ADX variant holds a long position
\* and ADX < exit threshold, or close <= stop_loss, or close >= take_profit,
\* it issues CLOSE, as the MACD/ADX variant does.
C14_EmaAdxExit ==
    (/\ cycle.ran /\ variant = "EmaAdx"
     /\ position = "long"
     /\ entry_price # None /\ entry_price[1] > 0
     /\ data[2].Close > 0
     /\ \/ Lt(data[2].Adx, adx_exit_threshold)
        \/ LevelsHit(cycle.start, data[2].Close) = "close") =>
        cycle.intent = "CLOSE"

\* A bar of a series has been evaluated.
SeriesCycle == series.bar >= 1 /\ cycle.ran

\* C15: the evaluation of the first usable bar after warm-up (the first bar on
\* which every indicator of the variant is defined, so that the previous
\* sample is undefined or absent) yields no buy, in every variant, backtest
\* and live.
C15_FirstUsableBarHolds ==
    (SeriesCycle /\ series.bar = FirstUsableBar(variant, series.ind, Len(series.bars))) =>
        /\ cycle.intent # "OPEN_LONG"
        /\ \A i \in DOMAIN cycle.orders : cycle.orders[i] # "BUY"

\* The EMA/RSI backtest on a series 100, 98, 96, ... long enough for the RSI
\* (window 10), its indicators computed.
DecliningRun ==
    /\ variant = "EmaRsi"
    /\ series.bar >= 1
    /\ Len(series.bars) > rsi_window
    /\ series.bars = Declining(Len(series.bars))

\* C16 as worded: on the declining series the EMA/RSI variant has issued an
\* OPEN_LONG by the end of the sequence, and does not issue one on a bar on
\* which it is already long.
C16_DecliningOneEntry ==
    (DecliningRun /\ cycle.ran /\ series.bar = Len(series.bars)) =>
        /\ entry_price # None
        /\ (position = "long" => cycle.intent # "OPEN_LONG")

\* C16 amended: on the declining series the RSI is 0 (below the lower band 30)
\* at every index from the window on, the close is not above the EMA on any
\* bar on which the EMA is defined, and the EMA/RSI variant issues no
\* OPEN_LONG over the whole sequence: every bar is HOLD.
C16_DecliningNoEntry ==
    DecliningRun =>
        /\ \A i \in (rsi_window + 1)..Len(series.bars) :
              /\ series.ind.rsi[i] = Num(0)
              /\ QLt(series.ind.rsi[i], Num(lower_rsi_band))
        /\ \A i \in 1..Len(series.bars) :
              series.ind.ema[i] # NaN => ~QGt(Num(series.bars[i].Close), series.ind.ema[i])
        /\ entry_price = None
        /\ position = "flat"
        /\ cycle.ran => cycle.intent = "HOLD"

\* C16 witness: the last bar of a declining series has been evaluated with
\* RSI 0 below an EMA above the close, and nothing was bought.
C16_Witness ==
    /\ DecliningRun /\ cycle.ran
    /\ series.bar = Len(series.bars)
    /\ series.bar >= rsi_window + 3
    /\ data[2].Rsi = Some(0)
    /\ data[2].Close < data[2].Ema
    /\ cycle.intent = "HOLD"

\* calculate_ema has returned the EMA column of the run's closes.
EmaReturned == variant = "EmaRsi" /\ series.bar >= 1

\* C17: for a price series of length >= w, calculate_ema with window w returns
\* at index w - 1 the simple mean of the first w prices, and at every later
\* index i the value alpha * price[i] + (1 - alpha) * ema[i - 1] with
\* alpha = 2 / (w + 1).
C17_EmaSeedAndRecurrence ==
    EmaReturned =>
        LET prices == Closes(series.bars)
            w == series.window
            ema == series.ind.ema
            alpha == Q(2, w + 1)
        IN  /\ Len(prices) >= w
            /\ ema[w] = QDiv(QSum(prices, 1, w), Num(w))
            /\ \A i \in (w + 1)..Len(prices) :
                  ema[i] = QAdd(QMul(alpha, prices[i]),
                                QMul(QSub(Num(1), alpha), ema[i - 1]))

\* C17 witness: window 2 on closes 1, 2, 4: the seed is the mean 3/2 (not the
\* last price 2) and the next value is 2/3 * 4 + 1/3 * 3/2 = 19/6.
C17_Witness ==
    /\ EmaReturned
    /\ series.window = 2
    /\ Closes(series.bars) = <<Num(1), Num(2), Num(4)>>
    /\ series.ind.ema = <<NaN, <<3, 2>>, <<19, 6>>>>

\* Strategy.init has called calculate_ema on the run's closes.
EmaCalled == variant = "EmaRsi" /\ series.window >= 1 /\ pc # "init"

\* A float that is neither NaN nor infinite.
Defined(q) == q # NaN /\ q[2] # 0

\* C18: calculate_ema raises when the series has fewer than `window` points;
\* otherwise it returns a series of the same length as the input whose first
\* window - 1 positions are undefined and all later positions defined.
C18_EmaLengthAndWarmUp ==
    EmaCalled =>
        IF Len(series.bars) < series.window
        THEN /\ series.err = "ValueError"
             /\ pc = "crashed"
             /\ ~cycle.ran
        ELSE /\ series.err = "none"
             /\ Len(series.ind.ema) = Len(series.bars)
             /\ \A i \in 1..Len(series.bars) :
                   IF i < series.window THEN series.ind.ema[i] = NaN
                   ELSE Defined(series.ind.ema[i])

\* C18 witness: calculate_ema raised on two prices with window 3.
C18_Witness ==
    /\ EmaCalled
    /\ Len(series.bars) = 2 /\ series.window = 3
    /\ series.err = "ValueError"
    /\ pc = "crashed"

\* The EMA/RSI backtest on a flat (constant) series long enough for the RSI
\* window, its indicators computed.
FlatRun ==
    /\ variant = "EmaRsi"
    /\ series.bar >= 1
    /\ Len(series.bars) > rsi_window
    /\ series.bars = Flat(series.bars[1].Close, Len(series.bars))

\* The distance of an RSI value from 50.
Dist50(q) == QAbs(QSub(q, Num(50)))

\* C19 as worded: on a flat series there is no entry, and the RSI values after
\* the warm-up are numbers that trend toward 50: none is further from 50 than
\* the one before it.
C19_FlatRsiTowardFifty ==
    FlatRun =>
        /\ entry_price = None
        /\ \A i \in (rsi_window + 1)..Len(series.bars) :
              /\ Defined(series.ind.rsi[i])
              /\ i > rsi_window + 1 =>
                    ~QGt(Dist50(series.ind.rsi[i]), Dist50(series.ind.rsi[i - 1]))

\* C19 amended: on a flat series the smoothed RSI is NaN at every index
\* (average gain and average loss are both 0), the close is neither above nor
\* below the EMA on any bar (no crossing), and no entry is ever signalled:
\* every bar is HOLD.
C19_FlatRsiUndefined ==
    FlatRun =>
        /\ \A i \in 1..Len(series.bars) :
              /\ series.ind.rsi[i] = NaN
              /\ series.ind.ema[i] # NaN =>
                    series.ind.ema[i] = Num(series.bars[i].Close)
        /\ entry_price = None
        /\ position = "flat"
        /\ cycle.ran => cycle.intent = "HOLD"

\* C19 witness: the last bar of a flat series has been evaluated with the RSI
\* undefined and the close on the EMA, and nothing was bought.
C19_Witness ==
    /\ FlatRun /\ cycle.ran
    /\ series.bar = Len(series.bars)
    /\ series.bar >= rsi_window + 3
    /\ data[2].Rsi = None
    /\ data[2].Ema = data[2].Close
    /\ cycle.intent = "HOLD"

\* A trend-following variant on bars without range (high = low = close, the
\* same on every bar), its indicators computed.
ZeroRangeRun ==
    /\ variant \in {"MacdAdx", "EmaAdx", "LiveB"}
    /\ series.bar >= 1
    /\ series.bars = Flat(series.bars[1].Close, Len(series.bars))

\* C20 as worded: on bars without range TR, +DM and -DM are zero on every
\* bar, the ADX is NaN on every bar and calculate_adx does not raise; the
\* trend-following variants issue neither OPEN_LONG nor CLOSE.
C20_ZeroRangeAllZero ==
    ZeroRangeRun =>
        /\ series.err = "none"
        /\ \A i \in 1..Len(series.bars) :
              /\ series.ind.adx.tr[i] = Num(0)
              /\ series.ind.adx.plus_dm[i] = Num(0)
              /\ series.ind.adx.minus_dm[i] = Num(0)
              /\ series.ind.adx.adx[i] = NaN
        /\ cycle.ran => (cycle.intent \notin {"OPEN_LONG", "CLOSE"} /\ cycle.orders = <<>>)

\* C20 amended: on bars without range TR is NaN on the first bar (it has no
\* previous close) and zero on every later bar, +DM and -DM are zero on every
\* bar, the ADX is NaN on every bar and calculate_adx does not raise; the
\* trend-following variants issue neither OPEN_LONG nor CLOSE, and send no
\* order.
C20_ZeroRangeAdxUndefined ==
    ZeroRangeRun =>
        /\ series.err = "none"
        /\ \A i \in 1..Len(series.bars) :
              /\ series.ind.adx.tr[i] = (IF i = 1 THEN NaN ELSE Num(0))
              /\ series.ind.adx.plus_dm[i] = Num(0)
              /\ series.ind.adx.minus_dm[i] = Num(0)
              /\ series.ind.adx.adx[i] = NaN
        /\ cycle.ran => (cycle.intent \notin {"OPEN_LONG", "CLOSE"} /\ cycle.orders = <<>>)
        /\ entry_price = None

\* C20 witness: the last of `window` bars without range has been evaluated
\* with the ADX undefined, and the cycle held.
C20_Witness ==
    /\ ZeroRangeRun /\ cycle.ran
    /\ series.bar >= adx_window
    /\ data[2].Adx = None
    /\ cycle.intent = "HOLD"

\* A long position is held at the start of the cycle: the state is LONG
\* (live), self.position.is_long (backtest).
LongHeld ==
    IF IsLive THEN cycle.open /\ cycle.start.current_position = LONG
    ELSE position = "long"

\* The close is at or beyond one of the price levels the cycle started with.
LevelBreached ==
    \/ data[2].Close * 100 <= cycle.start.stop_loss[1]
    \/ data[2].Close * 100 >= cycle.start.take_profit[1]

\* C21: in the EMA/RSI and Bollinger/RSI variants (backtest and live EMA/RSI),
\* on every bar where a long position is held a CLOSE is issued if and only if
\* RSI > upper band (strictly), or close <= stop_loss, or close >= take_profit
\* (inclusive).
C21_MeanReversionExit ==
    (cycle.ran /\ variant \in {"EmaRsi", "BbRsi", "LiveA"} /\ LongHeld) =>
        /\ cycle.start.stop_loss # None
        /\ cycle.start.take_profit # None
        /\ cycle.intent = "CLOSE" <=>
              \/ Gt(data[2].Rsi, IF variant = "BbRsi" THEN bb_upper_rsi_band
                                 ELSE upper_rsi_band)
              \/ LevelBreached

\* C21 witness: the live app, long, saw the RSI exactly on the upper band
\* with the close between the levels, and held.
C21_Witness ==
    /\ cycle.ran /\ variant = "LiveA" /\ LongHeld
    /\ data[2].Rsi = Some(upper_rsi_band)
    /\ ~LevelBreached
    /\ cycle.intent = "HOLD"

\* The close is at or beyond a price level the cycle started with (a level
\* that is not set is not breached).
SetLevelBreached ==
    \/ cycle.start.stop_loss # None /\ data[2].Close * 100 <= cycle.start.stop_loss[1]
    \/ cycle.start.take_profit # None /\ data[2].Close * 100 >= cycle.start.take_profit[1]

\* C22: in the MACD/ADX variant (backtest and live), on every cycle where a
\* position is open a CLOSE is issued if and only if ADX < exit threshold, or
\* close <= stop_loss, or close >= take_profit, and at most one close order is
\* issued in that cycle (none when no CLOSE is issued).
C22_TrendExit ==
    (cycle.ran /\ variant \in {"MacdAdx", "LiveB"} /\ cycle.open) =>
        /\ cycle.intent = "CLOSE" <=>
              (Lt(data[2].Adx, adx_exit_threshold) \/ SetLevelBreached)
        /\ Len(cycle.orders) <= 1
        /\ cycle.intent # "CLOSE" => cycle.orders = <<>>

\* C22 witness: the live app, long, saw the ADX below the exit threshold with
\* the close between the levels and sent exactly one closing order.
C22_Witness ==
    /\ cycle.ran /\ variant = "LiveB" /\ cycle.open
    /\ cycle.start.current_position = LONG
    /\ Lt(data[2].Adx, adx_exit_threshold)
    /\ ~SetLevelBreached
    /\ cycle.intent = "CLOSE"
    /\ cycle.orders = <<"SELL">>

\* C23: HOLD is a no-op: an evaluation cycle in which no order is issued (no
\* entry signal while flat, no exit condition while open) leaves
\* position_open, current_position, stop_loss and take_profit unchanged.
C23_HoldIsNoOp ==
    (cycle.ran /\ cycle.orders = <<>>) =>
        /\ self.position_open = cycle.start.position_open
        /\ self.current_position = cycle.start.current_position
        /\ self.stop_loss = cycle.start.stop_loss
        /\ self.take_profit = cycle.start.take_profit

\* C23 witness: a live cycle before any trade (position_open still None) saw
\* no entry signal, issued no order and left the attributes as they were.
C23_Witness ==
    /\ LiveRan /\ cycle.intent = "HOLD"
    /\ cycle.orders = <<>>
    /\ cycle.start.position_open = "None"
    /\ self = cycle.start

\* What EmaRsiMeanReversion computes on the bars of the run: its indicator
\* columns, and whether its entry test fires on bar i (next() is not called
\* on the first Start bars).
BacktestIndicators == IndicatorsOf("EmaRsi", series.bars, series.window)
BacktestSignalAt(i) ==
    /\ i > Start("EmaRsi", BacktestIndicators.ind)
    /\ BuySignalA(RowAt("EmaRsi", series.bars, BacktestIndicators.ind, i - 1),
                  RowAt("EmaRsi", series.bars, BacktestIndicators.ind, i))

\* C24: on the same price series the live EMA/RSI loop computes the same EMA
\* and RSI columns as the backtest EmaRsiMeanReversion (calculate_ema,
\* calculate_rsi_smoothed), and a flat live cycle decides OPEN_LONG on a bar
\* exactly when the backtest's entry test fires on that bar.
C24_LiveMatchesBacktest ==
    (variant = "LiveA" /\ series.bar >= 1) =>
        /\ BacktestIndicators.err = "none"
        /\ series.ind.ema = BacktestIndicators.ind.ema
        /\ series.ind.rsi = BacktestIndicators.ind.rsi
        /\ (cycle.ran /\ ~cycle.open /\ cycle.sizing.err = "none") =>
              (cycle.intent = "OPEN_LONG" <=> BacktestSignalAt(series.bar))

\* C25: in both live apps every polling iteration submits at most one order:
\* one entry BUY in an iteration that starts flat, or one closing order in an
\* iteration that starts open; never both and never two closes.
C25_OneOrderPerIteration ==
    LiveRan =>
        /\ Len(cycle.orders) <= 1
        /\ cycle.orders # <<>> =>
              IF cycle.open THEN cycle.intent = "CLOSE"
              ELSE cycle.intent = "OPEN_LONG" /\ cycle.orders = <<"BUY">>

\* C25 witness: MacdAdxLiveTradingApp, long, saw the ADX below the exit
\* threshold and the close on the stop loss in the same iteration, and
\* submitted a single SELL.
C25_Witness ==
    /\ LiveRan /\ variant = "LiveB" /\ cycle.open
    /\ cycle.start.current_position = LONG
    /\ Lt(data[2].Adx, adx_exit_threshold)
    /\ cycle.start.stop_loss # None
    /\ data[2].Close > 0
    /\ data[2].Close * 100 <= cycle.start.stop_loss[1]
    /\ cycle.orders = <<"SELL">>

\* C26: in both live apps, while the latest bar is unchanged across
\* consecutive polling iterations (no new data), at most one BUY order is
\* submitted for that bar, also when the first submission raised or was
\* followed by an empty broker position list.
C26_OneBuyPerBar == IsLive => bar_buys <= 1

\* C27: in the live EMA/RSI app no open position is left unmanaged: every
\* cycle that starts with position_open true and sees the RSI above the upper
\* band, or the close at or beyond a price level, decides to close.
C27_OpenPositionManaged ==
    (/\ LiveRan /\ variant = "LiveA" /\ cycle.open
     /\ data[2].Close > 0
     /\ Gt(data[2].Rsi, upper_rsi_band) \/ SetLevelBreached) =>
        cycle.intent = "CLOSE"

\* C28: in the live MACD/ADX app a close never increases exposure: a cycle
\* that starts with position_open true submits a BUY only if the broker-side
\* holding is not long (here: the account holds no units) when the cycle
\* starts.
C28_CloseNeverBuysWhileLong ==
    [][(/\ variant = "LiveB"
        /\ cycle'.ran /\ cycle'.open
        /\ Buys(cycle'.orders) > 0) => broker = 0]_vars

\* C29: in both live apps a cycle that starts long and does not return the
\* state to flat (a hold, or a close order after which the broker still
\* reports a position) leaves stop_loss and take_profit at the values fixed
\* at entry.
C29_LevelsFixedWhileLong ==
    (/\ LiveRan /\ cycle.open
     /\ cycle.start.current_position = LONG
     /\ self.position_open = "True") =>
        /\ self.stop_loss = cycle.start.stop_loss
        /\ self.take_profit = cycle.start.take_profit

\* The SELL orders among the orders of one iteration.
Sells(os) == Cardinality({i \in DOMAIN os : os[i] = "SELL"})

\* C30: in both live apps a SELL order is submitted only in a cycle that
\* starts with position_open true and current_position equal to long; no
\* SELL is submitted from a locally flat state.
C30_SellOnlyFromLong ==
    (LiveRan /\ Sells(cycle.orders) > 0) =>
        /\ cycle.open
        /\ cycle.start.position_open = "True"
        /\ cycle.start.current_position = LONG

\* C30 witness: the live EMA/RSI app, open and long, submitted a SELL that the
\* broker accepted.
C30_Witness ==
    /\ LiveRan /\ variant = "LiveA"
    /\ Sells(cycle.orders) = 1
    /\ cycle.start.position_open = "True"
    /\ cycle.start.current_position = LONG
    /\ cycle.exec.submit = "ok"

\* The cycle reached a comparison of the close with stop_loss / take_profit:
\* live, manage_position with current_position == LONG (in MacdAdxLiveTradingApp
\* after the ADX test did not close); backtest, next() with a long position
\* and the tests before the levels in the `or` chain False.
LevelsCompared ==
    IF IsLive
    THEN /\ cycle.open
         /\ cycle.start.current_position = LONG
         /\ variant = "LiveB" => ~Lt(data[2].Adx, adx_exit_threshold)
    ELSE /\ position = "long"
         /\ variant # "EmaAdx"
         /\ variant = "BbRsi" => ~Gt(data[2].Rsi, bb_upper_rsi_band)
         /\ variant = "MacdAdx" => ~Lt(data[2].Adx, adx_exit_threshold)

====
